---- MODULE Spec2Model ----
(***************************************************************************)
(* A model of dnb.py, the MS-NRBF (.NET Binary Format) decoder: the octet  *)
(* stream readers of class Stream, the record decoders of RecordTypeEnum,  *)
(* and the three operations of class DNBinary: parse, backfill and crunch. *)
(*                                                                         *)
(* The byte source is a sequence of octets (0..255) and every reader       *)
(* consumes octets exactly as the struct formats of the source do.         *)
(*                                                                         *)
(* Python values are represented as tagged nodes so that heterogeneous     *)
(* trees (mappings, sequences, scalars, None) can live in one value:       *)
(*    None  ->  Null        int  -> Num(i)      bool -> Bool(b)            *)
(*    str   ->  Str(s)      list -> List(seq)   dict -> Dict(function)     *)
(* Python dictionaries are value-copied where the source copies them       *)
(* (dict(obj), a.update(b)); the only dictionaries that the source keeps   *)
(* reachable through two names and later mutates are the ones stored in    *)
(* _objrefs, and those are NOT the dictionaries stored in the record list  *)
(* (Stream.record builds a new dictionary), so value semantics is exact.   *)
(***************************************************************************)
EXTENDS Integers, Sequences, FiniteSets, TLC

VARIABLES
    stream,      \* the octets of the byte source (Stream.f)
    pos,         \* number of octets read from the byte source so far
    strict,      \* DNBinary._strict  (not best_effort)
    expand,      \* DNBinary._expand
    dnbBound,    \* whether the module-global name `dnb` is bound to this decoder
    objects,     \* DNBinary._objects   ObjectTable
    values,      \* DNBinary._values    ValueTable
    objrefs,     \* DNBinary._objrefs   ReferenceList
    pruned,      \* DNBinary._pruned    PrunedSet
    records,     \* DNBinary._records   the top-level record list
    parseState,  \* "idle" | "running" | "returned" | "raised" | "hung"
    parseErr,    \* the exception that ended parse(), "OK" if none
    history,     \* the backfill()/crunch() calls made so far: the operation,
                 \* its argument, the parseState it was made at, its exception
    crunched     \* the value returned by the last crunch() call

vars == <<stream, pos, strict, expand, dnbBound, objects, values, objrefs,
          pruned, records, parseState, parseErr, history, crunched>>

----------------------------------------------------------------------------
(* Bounds of the model                                                     *)

MaxRecs  == 2    \* top-level records in an input stream after its first one
MaxCalls == 2    \* backfill()/crunch() calls made on one decoder

----------------------------------------------------------------------------
(* Python values                                                           *)

Null    == [t |-> "null"]
Num(i)  == [t |-> "int",  v |-> i]
Bool(b) == [t |-> "bool", v |-> b]
Str(s)  == [t |-> "str",  v |-> s]
List(s) == [t |-> "list", v |-> s]
Dict(f) == [t |-> "dict", v |-> f]
\* integers wider than the checker's arithmetic are kept as their octets
Wide(k, o) == [t |-> "wide", k |-> k, v |-> o]

IsDict(n) == n.t = "dict"
IsList(n) == n.t = "list"
Has(n, k) == k \in DOMAIN n.v
\* a.update(b): the entries of b replace those of a
Update(a, b) == Dict(b.v @@ a.v)
\* a[k] = x
Put(a, k, x) == Dict((k :> x) @@ a.v)
EmptyMap == [k \in {} |-> Null]

----------------------------------------------------------------------------
(* Decoder results.  A reader takes the parser state ps (position, tables, *)
(* pending exception) and returns the new state with the value read.       *)

OK == "OK"
Ret(ps, v)   == [ps |-> ps, val |-> v]
Raise(ps, e) == [ps |-> [ps EXCEPT !.err = e], val |-> Null]
Failed(r)    == r.ps.err # OK

\* sequencing of two statements: an exception raised by the first ends the
\* function, otherwise the second runs on what the first returned
Then(r, K(_)) == IF Failed(r) THEN r ELSE K(r)

\* Stream.read
read(ps, size) ==
    IF size < 0 \/ ps.pos + size > Len(stream)
    THEN Raise([ps EXCEPT !.pos = Len(stream)], "EOFError")
    ELSE Ret([ps EXCEPT !.pos = @ + size],
             SubSeq(stream, ps.pos + 1, ps.pos + size))

\* Stream.boolean: struct '<?' is true for every non-zero octet
boolean(ps) ==
    Then(read(ps, 1), LAMBDA r : Ret(r.ps, Bool(r.val[1] # 0)))

\* Stream.byte
byte(ps) ==
    Then(read(ps, 1), LAMBDA r : Ret(r.ps, r.val[1]))

\* Stream.int8
int8(ps) ==
    Then(read(ps, 1), LAMBDA r :
    Ret(r.ps, IF r.val[1] >= 128 THEN r.val[1] - 256 ELSE r.val[1]))

\* Stream.int16
int16(ps) ==
    Then(read(ps, 2), LAMBDA r :
    Ret(r.ps, r.val[1] + 256 * (IF r.val[2] >= 128 THEN r.val[2] - 256 ELSE r.val[2])))

\* Stream.uint16
uint16(ps) ==
    Then(read(ps, 2), LAMBDA r : Ret(r.ps, r.val[1] + 256 * r.val[2]))

\* Stream.int32: four octets, little-endian, two's complement
int32(ps) ==
    Then(read(ps, 4), LAMBDA r :
    Ret(r.ps, r.val[1] + 256 * r.val[2] + 65536 * r.val[3]
              + 16777216 * (IF r.val[4] >= 128 THEN r.val[4] - 256 ELSE r.val[4])))

\* Stream.uint32, int64, uint64, double, single, timespan: n octets
wide(ps, k, n) ==
    Then(read(ps, n), LAMBDA r : Ret(r.ps, Wide(k, r.val)))

\* the low two bits of the ticks select the kind of a DateTime
KindOf(low) ==
    IF low % 2 = 1 THEN Str("UTC") ELSE IF low = 2 THEN Str("Local") ELSE Null

\* Stream.datetime: the kind bits are cleared from the ticks
datetime(ps) ==
    Then(read(ps, 8), LAMBDA r :
    Ret(r.ps, Dict([Kind  |-> KindOf(r.val[1] % 4),
                    ticks |-> Wide("Int64", [r.val EXCEPT ![1] = @ - (@ % 4)])])))

----------------------------------------------------------------------------
(* 2.1.1.6 Length Prefixed String                                          *)

\* Python integers are unbounded; a length of HugeLen or more stands for
\* every length that no input of the model can supply
HugeLen == 536870912

Min(a, b) == IF a < b THEN a ELSE b

RECURSIVE Pow128(_)
Pow128(k) == IF k = 0 THEN 1 ELSE 128 * Pow128(k - 1)

\* (byte & ~0x80) << shift, with shift = 7 * k
Shifted(chunk, k) ==
    IF chunk = 0 THEN 0
    ELSE IF k >= 4 THEN HugeLen
    ELSE Min(HugeLen, chunk * Pow128(k))

\* the while loop of Stream.string: octets are read for as long as the
\* continuation bit is set; the source places no limit on their number
RECURSIVE stringLength(_, _, _)
stringLength(ps, length, k) ==
    Then(byte(ps), LAMBDA r :
    IF r.val >= 128
    THEN stringLength(r.ps, Min(HugeLen, length + Shifted(r.val % 128, k)), k + 1)
    ELSE Ret(r.ps, Min(HugeLen, length + Shifted(r.val % 128, k))))

\* the characters the model can name; raw.decode("utf-8") maps an ASCII
\* octet to the character of the same code point
CharOf ==
    (45 :> "-") @@ (46 :> ".") @@ (48 :> "0") @@ (49 :> "1") @@ (50 :> "2") @@ (51 :> "3") @@
    (52 :> "4") @@ (53 :> "5") @@ (54 :> "6") @@ (55 :> "7") @@ (56 :> "8") @@ (57 :> "9") @@
    (97 :> "a") @@ (98 :> "b") @@ (99 :> "c") @@ (100 :> "d") @@ (101 :> "e") @@ (102 :> "f") @@
    (103 :> "g") @@ (104 :> "h") @@ (105 :> "i") @@ (106 :> "j") @@ (107 :> "k") @@ (108 :> "l") @@
    (109 :> "m") @@ (110 :> "n") @@ (111 :> "o") @@ (112 :> "p") @@ (113 :> "q") @@ (114 :> "r") @@
    (115 :> "s") @@ (116 :> "t") @@ (117 :> "u") @@ (118 :> "v") @@ (119 :> "w") @@ (120 :> "x") @@
    (121 :> "y") @@ (122 :> "z")

\* raw.decode("utf-8").  Octets that can never start a UTF-8 sequence raise
\* UnicodeDecodeError; other text outside CharOf is not modelled.
RECURSIVE utf8(_)
utf8(raw) ==
    IF raw = << >> THEN [err |-> OK, s |-> ""]
    ELSE LET o == Head(raw) IN
         IF (o >= 128 /\ o <= 193) \/ o >= 245
         THEN [err |-> "UnicodeDecodeError", s |-> ""]
         ELSE IF o \notin DOMAIN CharOf
         THEN [err |-> "UnmodelledText", s |-> ""]
         ELSE LET rest == utf8(Tail(raw)) IN
              IF rest.err # OK THEN rest
              ELSE [err |-> OK, s |-> CharOf[o] \o rest.s]

\* Stream.string, returning the payload octets next to the decoded text
stringRaw(ps) ==
    Then(stringLength(ps, 0, 0), LAMBDA n :
    Then(read(n.ps, n.val), LAMBDA raw :
    IF utf8(raw.val).err # OK THEN Raise(raw.ps, utf8(raw.val).err)
    ELSE Ret(raw.ps, [raw |-> raw.val, text |-> utf8(raw.val).s])))

\* Stream.string
string(ps) ==
    Then(stringRaw(ps), LAMBDA r : Ret(r.ps, Str(r.val.text)))

\* 2.1.1.7 Decimal: the text must match ^(-)?([0-9]+)(\.([0-9]+))?$
IsDigit(o) == o >= 48 /\ o <= 57

RECURSIVE SkipDigits(_)
SkipDigits(s) == IF s # << >> /\ IsDigit(Head(s)) THEN SkipDigits(Tail(s)) ELSE s

\* $ matches at the end of the text and before a final newline
AtEnd(s) == s = << >> \/ s = <<10>>

DecimalMatch(raw) ==
    LET s1 == IF raw # << >> /\ Head(raw) = 45 THEN Tail(raw) ELSE raw
        s2 == SkipDigits(s1)
    IN /\ s2 # s1
       /\ \/ AtEnd(s2)
          \/ /\ s2 # << >> /\ Head(s2) = 46
             /\ SkipDigits(Tail(s2)) # Tail(s2)
             /\ AtEnd(SkipDigits(Tail(s2)))

\* Stream.decimal
decimal(ps) ==
    Then(stringRaw(ps), LAMBDA r :
    IF ~DecimalMatch(r.val.raw) THEN Raise(r.ps, "Exception")
    ELSE Ret(r.ps, [t |-> "decimal", v |-> r.val.text]))

\* Stream.ClassTypeInfo
ClassTypeInfo(ps) ==
    Then(string(ps), LAMBDA a :
    Then(int32(a.ps), LAMBDA b :
    Ret(b.ps, Dict([TypeName |-> a.val, LibraryId |-> Num(b.val)]))))

----------------------------------------------------------------------------
(* 2.1.2 Enumerations: an octet outside the enumeration raises ValueError  *)

\* class RecordTypeEnum
RecordTypeEnum ==
    (0 :> "SerializedStreamHeader") @@ (1 :> "ClassWithId") @@ (2 :> "SystemClassWithMembers") @@
    (3 :> "ClassWithMembers") @@ (4 :> "SystemClassWithMembersAndTypes") @@ (5 :> "ClassWithMembersAndTypes") @@
    (6 :> "BinaryObjectString") @@ (7 :> "BinaryArray") @@ (8 :> "MemberPrimitiveTyped") @@
    (9 :> "MemberReference") @@ (10 :> "ObjectNull") @@ (11 :> "MessageEnd") @@
    (12 :> "BinaryLibrary") @@ (13 :> "ObjectNullMultiple256") @@ (14 :> "ObjectNullMultiple") @@
    (15 :> "ArraySinglePrimitive") @@ (16 :> "ArraySingleObject") @@ (17 :> "ArraySingleString") @@
    (20 :> "ArrayOfType") @@ (21 :> "MethodCall") @@ (22 :> "MethodReturn")

\* class PrimitiveTypeEnum
PrimitiveTypeEnum ==
    (1 :> "Boolean") @@ (2 :> "Byte") @@ (3 :> "Char") @@
    (5 :> "Decimal") @@ (6 :> "Double") @@ (7 :> "Int16") @@
    (8 :> "Int32") @@ (9 :> "Int64") @@ (10 :> "SByte") @@
    (11 :> "Single") @@ (12 :> "TimeSpan") @@ (13 :> "DateTime") @@
    (14 :> "UInt16") @@ (15 :> "UInt32") @@ (16 :> "UInt64") @@
    (17 :> "Null") @@ (18 :> "String")

\* class BinaryTypeEnum
BinaryTypeEnum ==
    (0 :> "Primitive") @@ (1 :> "String") @@ (2 :> "Object") @@
    (3 :> "SystemClass") @@ (4 :> "Class") @@ (5 :> "ObjectArray") @@
    (6 :> "StringArray") @@ (7 :> "PrimitiveArray")

\* class BinaryArrayTypeEnum
BinaryArrayTypeEnum ==
    (0 :> "Single") @@ (1 :> "Jagged") @@ (2 :> "Rectangular") @@
    (3 :> "SingleOffset") @@ (4 :> "JaggedOffset") @@ (5 :> "RectangularOffset")

Enumeration(ps, enum) ==
    Then(byte(ps), LAMBDA r :
    IF r.val \notin DOMAIN enum THEN Raise(r.ps, "ValueError")
    ELSE Ret(r.ps, enum[r.val]))

\* Stream.RecordTypeEnumeration
RecordTypeEnumeration(ps) == Enumeration(ps, RecordTypeEnum)
\* Stream.BinaryTypeEnumeration
BinaryTypeEnumeration(ps) == Enumeration(ps, BinaryTypeEnum)
\* Stream.PrimitiveTypeEnumeration
PrimitiveTypeEnumeration(ps) == Enumeration(ps, PrimitiveTypeEnum)
\* Stream.BinaryArrayTypeEnumeration
BinaryArrayTypeEnumeration(ps) == Enumeration(ps, BinaryArrayTypeEnum)

\* BinaryArrayTypeEnum.has_bounds
has_bounds(name) == name \in {"SingleOffset", "JaggedOffset", "RectangularOffset"}

NumOf(r) == IF Failed(r) THEN r ELSE Ret(r.ps, Num(r.val))

\* PrimitiveTypeEnum.parse and its registered handlers
PrimitiveParse(ps, name) ==
    CASE name = "Boolean"  -> boolean(ps)
      [] name = "Byte"     -> NumOf(byte(ps))
      [] name = "Char"     -> Raise(ps, "Exception")        \* Stream.char
      [] name = "Decimal"  -> decimal(ps)
      [] name = "Double"   -> wide(ps, "Double", 8)
      [] name = "Int16"    -> NumOf(int16(ps))
      [] name = "Int32"    -> Raise(ps, "AttributeError")   \* f.i32 does not exist
      [] name = "Int64"    -> wide(ps, "Int64", 8)
      [] name = "SByte"    -> NumOf(int8(ps))
      [] name = "Single"   -> wide(ps, "Single", 4)
      [] name = "TimeSpan" -> wide(ps, "Int64", 8)
      [] name = "DateTime" -> datetime(ps)
      [] name = "UInt16"   -> NumOf(uint16(ps))
      [] name = "UInt32"   -> wide(ps, "UInt32", 4)
      [] name = "UInt64"   -> wide(ps, "UInt64", 8)
      [] name = "Null"     -> Ret(ps, Null)
      [] name = "String"   -> string(ps)

StrOf(r) == IF Failed(r) THEN r ELSE Ret(r.ps, Str(r.val))

\* BinaryTypeEnum.parse_info and its registered handlers
parse_info(ps, name) ==
    CASE name \in {"Primitive", "PrimitiveArray"} -> StrOf(PrimitiveTypeEnumeration(ps))
      [] name \in {"String", "Object", "ObjectArray", "StringArray"} -> Ret(ps, Null)
      [] name = "SystemClass" -> Raise(ps, "AttributeError")   \* f.String does not exist
      [] name = "Class"       -> ClassTypeInfo(ps)

----------------------------------------------------------------------------
(* 2.3.1 Common structures of the class records                            *)

\* for _ in range(count): append(self.string())
RECURSIVE MemberNames(_, _, _)
MemberNames(ps, count, acc) ==
    IF count <= 0 THEN Ret(ps, acc)
    ELSE Then(string(ps), LAMBDA r :
         MemberNames(r.ps, count - 1, Append(acc, r.val)))

\* Stream.ClassInfo
ClassInfo(ps) ==
    Then(int32(ps), LAMBDA a :
    Then(string(a.ps), LAMBDA b :
    Then(int32(b.ps), LAMBDA c :
    Then(MemberNames(c.ps, c.val, << >>), LAMBDA d :
    Ret(d.ps, Dict([ObjectId    |-> Num(a.val),
                    Name        |-> b.val,
                    MemberCount |-> Num(c.val),
                    MemberNames |-> List(d.val)]))))))

\* for _ in range(count): bnum.append(self.BinaryTypeEnumeration())
RECURSIVE BinaryTypeEnums(_, _, _)
BinaryTypeEnums(ps, count, acc) ==
    IF count <= 0 THEN Ret(ps, acc)
    ELSE Then(BinaryTypeEnumeration(ps), LAMBDA r :
         BinaryTypeEnums(r.ps, count - 1, Append(acc, Str(r.val))))

\* for b in bnum: aifo.append(b.parse_info(self))
RECURSIVE AdditionalInfos(_, _, _)
AdditionalInfos(ps, bnum, acc) ==
    IF bnum = << >> THEN Ret(ps, acc)
    ELSE Then(parse_info(ps, Head(bnum).v), LAMBDA r :
         AdditionalInfos(r.ps, Tail(bnum), Append(acc, r.val)))

\* Stream.MemberTypeInfo
MemberTypeInfo(ps, count) ==
    Then(BinaryTypeEnums(ps, count, << >>), LAMBDA a :
    Then(AdditionalInfos(a.ps, a.val, << >>), LAMBDA b :
    Ret(b.ps, Dict([BinaryTypeEnums |-> List(a.val),
                    AdditionalInfos |-> List(b.val)]))))

----------------------------------------------------------------------------
(* The decode-time tables of DNBinary.  The record decoders reach them     *)
(* through the module-global name dnb: where no such global is bound, the  *)
(* name lookup raises NameError.                                           *)

\* DNBinary._registerObject: a snapshot dict(obj) and the values, keyed by ref;
\* an existing entry for ref is replaced
registerObject(ps, ref, obj, vals) ==
    IF ~dnbBound THEN [ps EXCEPT !.err = "NameError"]
    ELSE [ps EXCEPT !.objects = (ref :> obj) @@ @,
                    !.values  = (ref :> vals) @@ @]

\* DNBinary._fetchObject: self._objects[ref]
fetchObject(ps, ref) ==
    IF ~dnbBound THEN Raise(ps, "NameError")
    ELSE IF ref \notin DOMAIN ps.objects THEN Raise(ps, "KeyError")
    ELSE Ret(ps, ps.objects[ref])

\* DNBinary._registerReference
registerReference(ps, ref, obj) ==
    IF ~dnbBound THEN [ps EXCEPT !.err = "NameError"]
    ELSE [ps EXCEPT !.objrefs = Append(@, [ref |-> ref, obj |-> obj])]

----------------------------------------------------------------------------
(* The record decoders of class RecordTypeEnum                             *)

RECURSIVE record(_)

\* BinaryTypeEnum.parse and its registered handlers (Object, ObjectArray,
\* StringArray and PrimitiveArray have none)
BinaryTypeParse(ps, name, info) ==
    CASE name = "Primitive" -> PrimitiveParse(ps, info.v)
      [] name \in {"String", "SystemClass", "Class"} -> record(ps)
      [] OTHER -> Raise(ps, "Exception")

\* the loop of RecordTypeEnum.__val_common
RECURSIVE val_loop(_, _, _, _)
val_loop(ps, classRecord, i, acc) ==
    IF i >= classRecord.v.ClassInfo.v.MemberCount.v THEN Ret(ps, acc)
    ELSE IF ~Has(classRecord, "MemberTypeInfo") THEN Raise(ps, "KeyError")
    ELSE LET mti == classRecord.v.MemberTypeInfo.v IN
         IF i + 1 > Len(mti.BinaryTypeEnums.v) THEN Raise(ps, "IndexError")
         ELSE Then(BinaryTypeParse(ps, mti.BinaryTypeEnums.v[i + 1].v,
                                       mti.AdditionalInfos.v[i + 1]), LAMBDA r :
              val_loop(r.ps, classRecord, i + 1, Append(acc, r.val)))

\* RecordTypeEnum.__val_common
val_common(ps, classRecord) ==
    IF ~Has(classRecord, "ClassInfo") THEN Raise(ps, "KeyError")
    ELSE val_loop(ps, classRecord, 0, << >>)

\* RecordTypeEnum.__class_common: the values are decoded, then the record is
\* registered (without Values), then Values is set on the record
class_common(ps, objid, rec, reference) ==
    Then(val_common(ps, IF reference = Null \/ reference = Dict(EmptyMap)
                        THEN rec ELSE reference), LAMBDA v :
    LET ps2 == registerObject(v.ps, objid, rec, List(v.val)) IN
    IF ps2.err # OK THEN Ret(ps2, Null)
    ELSE Ret(ps2, Put(rec, "Values", List(v.val))))

\* RecordTypeEnum._parse_00  SerializedStreamHeader
parse_00(ps) ==
    Then(int32(ps), LAMBDA a :
    Then(int32(a.ps), LAMBDA b :
    Then(int32(b.ps), LAMBDA c :
    Then(int32(c.ps), LAMBDA d :
    Ret(d.ps, Dict([RootId |-> Num(a.val), HeaderId |-> Num(b.val),
                    MajorVersion |-> Num(c.val), MinorVersion |-> Num(d.val)]))))))

\* parse_01 with the record registered before its metadata is fetched
parse_01_registerFirst(ps) ==
    Then(int32(ps), LAMBDA a :
    Then(int32(a.ps), LAMBDA b :
    LET rec == Dict([ObjectId |-> Num(a.val), MetadataId |-> Num(b.val)]) IN
    Then(Ret(registerObject(b.ps, a.val, rec, Null), Null), LAMBDA reg :
    Then(fetchObject(reg.ps, b.val), LAMBDA fetch :
    LET rec2 == IF expand THEN Update(rec, fetch.val) ELSE rec
    IN class_common(fetch.ps, rec2.v.ObjectId.v, rec2, fetch.val)))))

\* RecordTypeEnum._parse_01  ClassWithId
parse_01(ps) ==
    Then(int32(ps), LAMBDA a :
    Then(int32(a.ps), LAMBDA b :
    LET rec == Dict([ObjectId |-> Num(a.val), MetadataId |-> Num(b.val)]) IN
    Then(fetchObject(b.ps, b.val), LAMBDA fetch :
    LET rec2 == IF expand THEN Update(rec, fetch.val) ELSE rec
    IN class_common(fetch.ps, rec2.v.ObjectId.v, rec2, fetch.val))))

\* RecordTypeEnum._parse_02  SystemClassWithMembers
parse_02(ps) ==
    Then(ClassInfo(ps), LAMBDA a :
    LET rec == Dict([ClassInfo |-> a.val])
    IN Ret(registerObject(a.ps, a.val.v.ObjectId.v, rec, Null), rec))

\* RecordTypeEnum._parse_03  ClassWithMembers
parse_03(ps) ==
    Then(ClassInfo(ps), LAMBDA a :
    Then(int32(a.ps), LAMBDA b :
    LET rec == Dict([ClassInfo |-> a.val, LibraryId |-> Num(b.val)])
    IN Ret(registerObject(b.ps, a.val.v.ObjectId.v, rec, Null), rec)))

\* RecordTypeEnum.__mat_common
mat_common(ps, system) ==
    Then(ClassInfo(ps), LAMBDA a :
    Then(MemberTypeInfo(a.ps, a.val.v.MemberCount.v), LAMBDA b :
    Then(IF system THEN Ret(b.ps, 0) ELSE int32(b.ps), LAMBDA c :
    LET rec0 == Dict([ClassInfo |-> a.val, MemberTypeInfo |-> b.val])
        rec  == IF system THEN rec0 ELSE Put(rec0, "LibraryId", Num(c.val))
    IN class_common(c.ps, a.val.v.ObjectId.v, rec, Null))))

\* RecordTypeEnum._parse_04  SystemClassWithMembersAndTypes
parse_04(ps) == mat_common(ps, TRUE)

\* RecordTypeEnum._parse_05  ClassWithMembersAndTypes
parse_05(ps) == mat_common(ps, FALSE)

\* RecordTypeEnum._parse_06  BinaryObjectString
parse_06(ps) ==
    Then(int32(ps), LAMBDA a :
    Then(string(a.ps), LAMBDA b :
    LET rec == Dict([ObjectId |-> Num(a.val), Value |-> b.val])
    IN Ret(registerObject(b.ps, a.val, rec, b.val), rec)))

\* for i in range(rank): append(f.int32())
RECURSIVE Int32s(_, _, _)
Int32s(ps, count, acc) ==
    IF count <= 0 THEN Ret(ps, acc)
    ELSE Then(int32(ps), LAMBDA r :
         Int32s(r.ps, count - 1, Append(acc, Num(r.val))))

\* l = 1; for i in range(rank): l = l * Lengths[i]
RECURSIVE TotalCells(_)
TotalCells(lengths) ==
    IF lengths = << >> THEN 1 ELSE Head(lengths).v * TotalCells(Tail(lengths))

\* the while loop of _parse_07: only a decoded mapping advances the cell
\* count i and is appended; any other value leaves i as it was, so the loop
\* reads on, and never ends when such a value consumes no octet
RECURSIVE array_loop(_, _, _, _, _, _)
array_loop(ps, name, info, i, l, acc) ==
    IF i >= l THEN Ret(ps, acc)
    ELSE Then(BinaryTypeParse(ps, name, info), LAMBDA r :
         IF IsDict(r.val)
         THEN LET i2 == IF Has(r.val, "NullCount")
                        THEN i + r.val.v.NullCount.v ELSE i + 1
              IN IF i2 > l THEN Raise(r.ps, "Exception")
                 ELSE array_loop(r.ps, name, info, i2, l, Append(acc, r.val))
         ELSE IF r.ps.pos = ps.pos THEN Raise(r.ps, "NonTermination")
         ELSE array_loop(r.ps, name, info, i, l, acc))

\* RecordTypeEnum._parse_07  BinaryArray
parse_07(ps) ==
    Then(int32(ps), LAMBDA a :
    Then(BinaryArrayTypeEnumeration(a.ps), LAMBDA b :
    Then(int32(b.ps), LAMBDA c :
    Then(Int32s(c.ps, c.val, << >>), LAMBDA d :
    Then(IF has_bounds(b.val) THEN Int32s(d.ps, c.val, << >>)
                              ELSE Ret(d.ps, << >>), LAMBDA e :
    Then(BinaryTypeEnumeration(e.ps), LAMBDA f :
    Then(parse_info(f.ps, f.val), LAMBDA g :
    LET rec == Dict([ObjectId            |-> Num(a.val),
                     BinaryArrayTypeEnum |-> Str(b.val),
                     rank                |-> Num(c.val),
                     Lengths             |-> List(d.val),
                     LowerBounds         |-> List(e.val),
                     TypeEnum            |-> Str(f.val),
                     AdditionalTypeInfo  |-> g.val])
    IN IF b.val # "Single" THEN Raise(g.ps, "Exception")
       ELSE Then(array_loop(g.ps, f.val, g.val, 0, TotalCells(d.val), << >>),
                 LAMBDA v :
            LET ps2 == registerObject(v.ps, a.val, rec, List(v.val)) IN
            IF ps2.err # OK THEN Ret(ps2, Null)
            ELSE Ret(ps2, Put(rec, "Values", List(v.val)))))))))))

\* RecordTypeEnum._parse_09  MemberReference: the dictionary handed to
\* _registerReference is the one this handler builds
parse_09(ps) ==
    Then(int32(ps), LAMBDA a :
    LET rec == Dict([IdRef |-> Num(a.val)])
    IN Ret(registerReference(a.ps, a.val, rec), rec))

\* RecordTypeEnum._parse_10  ObjectNull
parse_10(ps) == Ret(ps, Dict(EmptyMap))

\* RecordTypeEnum._parse_11  MessageEnd
parse_11(ps) == Ret(ps, Dict(EmptyMap))

\* RecordTypeEnum._parse_12  BinaryLibrary: f.String does not exist
parse_12(ps) ==
    Then(int32(ps), LAMBDA a : Raise(a.ps, "AttributeError"))

\* RecordTypeEnum._parse_13  ObjectNullMultiple256
parse_13(ps) ==
    Then(byte(ps), LAMBDA a : Ret(a.ps, Dict([NullCount |-> Num(a.val)])))

\* RecordTypeEnum._parse_14  ObjectNullMultiple
parse_14(ps) ==
    Then(int32(ps), LAMBDA a : Ret(a.ps, Dict([NullCount |-> Num(a.val)])))

\* RecordTypeEnum.parse: the handler registered for the record type, and the
\* unimplemented default for the types that have none
RecordTypeParse(ps, name) ==
    CASE name = "SerializedStreamHeader"         -> parse_00(ps)
      [] name = "ClassWithId"                    -> parse_01(ps)
      [] name = "SystemClassWithMembers"         -> parse_02(ps)
      [] name = "ClassWithMembers"               -> parse_03(ps)
      [] name = "SystemClassWithMembersAndTypes" -> parse_04(ps)
      [] name = "ClassWithMembersAndTypes"       -> parse_05(ps)
      [] name = "BinaryObjectString"             -> parse_06(ps)
      [] name = "BinaryArray"                    -> parse_07(ps)
      [] name = "MemberReference"                -> parse_09(ps)
      [] name = "ObjectNull"                     -> parse_10(ps)
      [] name = "MessageEnd"                     -> parse_11(ps)
      [] name = "BinaryLibrary"                  -> parse_12(ps)
      [] name = "ObjectNullMultiple256"          -> parse_13(ps)
      [] name = "ObjectNullMultiple"             -> parse_14(ps)
      [] OTHER                                   -> Raise(ps, "Exception")

\* Stream.record: a new dictionary holding RecordTypeEnum, into which the
\* entries of the dictionary returned by the handler are copied
record(ps) ==
    Then(RecordTypeEnumeration(ps), LAMBDA rtype :
    Then(RecordTypeParse(rtype.ps, rtype.val), LAMBDA r :
    Ret(r.ps, Update(Dict([RecordTypeEnum |-> Str(rtype.val)]), r.val))))

----------------------------------------------------------------------------
(* class DNBinary: the post-decode passes                                  *)

\* the crunch results carry the exception raised, if any
Done(v)  == [err |-> OK, val |-> v]
Thrown(e) == [err |-> e, val |-> Null]

RECURSIVE crunch(_)

RECURSIVE crunchMembers(_, _, _, _)

\* crunchMembers with the members that crunch to None kept
crunchMembers_keepNull(value, classinfo, i, kv) ==
    IF i >= classinfo.v.MemberCount.v THEN Done(Dict(kv))
    ELSE IF i + 1 > Len(classinfo.v.MemberNames.v) THEN Thrown("IndexError")
    ELSE IF ~Has(value, "Values") THEN Thrown("KeyError")
    ELSE IF ~IsList(value.v.Values) THEN Thrown("TypeError")
    ELSE IF i + 1 > Len(value.v.Values.v) THEN Thrown("IndexError")
    ELSE LET name == classinfo.v.MemberNames.v[i + 1].v
             c    == crunch(value.v.Values.v[i + 1])
         IN IF c.err # OK THEN c
            ELSE crunchMembers(value, classinfo, i + 1, (name :> c.val) @@ kv)

\* the loop of DNBinary._crunchClass
crunchMembers(value, classinfo, i, kv) ==
    IF i >= classinfo.v.MemberCount.v THEN Done(Dict(kv))
    ELSE IF i + 1 > Len(classinfo.v.MemberNames.v) THEN Thrown("IndexError")
    ELSE IF ~Has(value, "Values") THEN Thrown("KeyError")
    ELSE IF ~IsList(value.v.Values) THEN Thrown("TypeError")
    ELSE IF i + 1 > Len(value.v.Values.v) THEN Thrown("IndexError")
    ELSE LET name == classinfo.v.MemberNames.v[i + 1].v
             c    == crunch(value.v.Values.v[i + 1])
         IN IF c.err # OK THEN c
            ELSE crunchMembers(value, classinfo, i + 1,
                               IF c.val # Null THEN (name :> c.val) @@ kv ELSE kv)

\* DNBinary._crunchClass
crunchClass(value) ==
    IF ~IsDict(value) THEN Thrown("Exception")
    ELSE IF Has(value, "ClassInfo")
    THEN crunchMembers(value, value.v.ClassInfo, 0, EmptyMap)
    ELSE IF value.v.MetadataId.v \notin DOMAIN objects THEN Thrown("KeyError")
    ELSE LET fetch == objects[value.v.MetadataId.v] IN
         IF ~Has(fetch, "ClassInfo") THEN Thrown("KeyError")
         ELSE crunchMembers(value, fetch.v.ClassInfo, 0, EmptyMap)

\* [self._crunch(v) for v in value]
RECURSIVE crunchList(_, _)
crunchList(s, acc) ==
    IF s = << >> THEN Done(List(acc))
    ELSE LET c == crunch(Head(s)) IN
         IF c.err # OK THEN c ELSE crunchList(Tail(s), Append(acc, c.val))

\* for (k,v) in value.items(): d[k] = self._crunch(v) unless it is None
crunchItems(value) ==
    LET c == [k \in DOMAIN value.v |-> crunch(value.v[k])]
        bad  == {k \in DOMAIN c : c[k].err # OK}
        keep == {k \in DOMAIN c : c[k].val # Null}
    IN IF bad # {} THEN c[CHOOSE k \in bad : TRUE]
       ELSE Done(Dict([k \in keep |-> c[k].val]))

\* DNBinary._crunch
crunch(value) ==
    IF IsDict(value)
    THEN IF Has(value, "ClassInfo") \/ Has(value, "MetadataId")
         THEN crunchClass(value)
         ELSE IF Has(value, "RecordTypeEnum")
                 /\ value.v.RecordTypeEnum = Str("ObjectNull")
         THEN Done(Null)
         ELSE IF Has(value, "Values") THEN crunch(value.v.Values)
         ELSE IF Has(value, "Value")  THEN crunch(value.v.Value)
         ELSE crunchItems(value)
    ELSE IF IsList(value) THEN crunchList(value.v, << >>)
    ELSE Done(value)

\* record_id
record_id(rec) ==
    IF Has(rec, "ObjectId") THEN rec.v.ObjectId
    ELSE IF Has(rec, "ClassInfo") THEN rec.v.ClassInfo.v.ObjectId
    ELSE IF Has(rec, "ArrayInfo") THEN rec.v.ArrayInfo.v.ObjectId
    ELSE Null

\* what DNBinary._find_record returns when no record matches
None == -1

\* DNBinary._find_record: the 0-based index of the first record whose
\* identity is rid, None if there is none
find_record(recs, rid) ==
    LET hits == {i \in 1..Len(recs) : record_id(recs[i]) = Num(rid)} IN
    IF hits = {} THEN None
    ELSE (CHOOSE i \in hits : \A j \in hits : i <= j) - 1

\* del self._records[x]
Delete(recs, x) == SubSeq(recs, 1, x) \o SubSeq(recs, x + 2, Len(recs))

\* DNBinary._prune, on the state st of a running backfill; `if x:` is false
\* for None and for index 0
prune(st, objid) ==
    IF objid \in st.pruned THEN st
    ELSE LET x == find_record(st.records, objid) IN
         [st EXCEPT !.records = IF x # None /\ x # 0 THEN Delete(@, x) ELSE @,
                    !.pruned  = @ \cup {objid}]

\* the loop of DNBinary.backfill over self._objrefs, from entry i on
RECURSIVE backfill_loop(_, _, _)
backfill_loop(st, i, doPrune) ==
    IF i > Len(st.objrefs) THEN st
    ELSE LET objid == st.objrefs[i].ref IN
         IF objid \notin DOMAIN objects THEN [st EXCEPT !.err = "KeyError"]
         ELSE LET vals == IF objid \in DOMAIN values THEN values[objid] ELSE Null
                  obj  == Put(Update(st.objrefs[i].obj, objects[objid]), "Values", vals)
                  st2  == [st EXCEPT !.objrefs[i].obj = obj]
              IN backfill_loop(IF doPrune THEN prune(st2, objid) ELSE st2,
                               i + 1, doPrune)

----------------------------------------------------------------------------
(* Input streams: wire encodings of records, concatenated                  *)

\* a 32-bit little-endian field holding i, for -128 <= i < 128
I32(i) == IF i >= 0 THEN <<i, 0, 0, 0>> ELSE <<256 + i, 255, 255, 255>>
\* a length-prefixed string of fewer than 128 octets
LPS(octets) == <<Len(octets)>> \o octets

EncHeader(root)   == <<0>> \o I32(root) \o I32(-1) \o I32(1) \o I32(0)
EncString(id, o)  == <<6>> \o I32(id) \o LPS(o)
EncRef(id)        == <<9>> \o I32(id)
EncNull           == <<10>>
EncEnd            == <<11>>
\* ClassWithMembersAndTypes "c" with members a: Primitive Byte, b: String
EncClass(id, a, b) ==
    <<5>> \o I32(id) \o LPS(<<99>>) \o I32(2) \o LPS(<<97>>) \o LPS(<<98>>)
          \o <<0, 1>> \o <<2>> \o I32(1) \o <<a>> \o b
\* ClassWithId, followed by the member values its metadata asks for
EncClassWithId(id, meta, vals) == <<1>> \o I32(id) \o I32(meta) \o vals
\* BinaryArray, Single, rank 1, of String elements
EncArray(id, len, elems) ==
    <<7>> \o I32(id) \o <<0>> \o I32(1) \o I32(len) \o <<1>> \o elems

\* the first record of a stream: a header, or none
Firsts == {<< >>, EncHeader(2), EncHeader(3)}

\* the records that follow it
Pieces ==
    { EncString(2, <<120>>),
      EncString(3, <<121>>),
      EncRef(2),
      EncRef(4),
      EncClass(3, 7, EncRef(2)),
      EncClassWithId(2, 3, <<9>> \o EncNull),
      EncArray(4, 2, EncString(5, <<120>>) \o <<13, 1>>),
      <<255>> }

\* the end of a stream: cut off, a MessageEnd, a MessageEnd with more behind it
Lasts == {<< >>, EncEnd, EncEnd \o EncString(2, <<120>>)}

RECURSIVE Bodies(_)
Bodies(n) ==
    IF n = 0 THEN {<< >>}
    ELSE LET shorter == Bodies(n - 1) IN
         shorter \cup {b \o p : b \in shorter, p \in Pieces}

Streams == {f \o b \o l : f \in Firsts, b \in Bodies(MaxRecs), l \in Lasts}

----------------------------------------------------------------------------
(* The decoder as a state machine                                          *)

\* DNBinary.__init__
Init ==
    /\ stream \in Streams
    /\ pos = 0
    /\ strict \in BOOLEAN
    /\ expand \in BOOLEAN
    /\ dnbBound \in BOOLEAN
    /\ objects = EmptyMap
    /\ values = EmptyMap
    /\ objrefs = << >>
    /\ pruned = {}
    /\ records = << >>
    /\ parseState = "idle"
    /\ parseErr = OK
    /\ history = << >>
    /\ crunched = Null

\* the state a decoder hands to the record decoders
Here == [pos |-> pos, err |-> OK, objects |-> objects,
         values |-> values, objrefs |-> objrefs]

\* parse swallowing the exception in strict mode as well
parse_swallow ==
    /\ parseState \in {"idle", "running"}
    /\ \E r \in {record(Here)} :
          /\ pos' = r.ps.pos
          /\ objects' = r.ps.objects
          /\ values' = r.ps.values
          /\ objrefs' = r.ps.objrefs
          /\ parseErr' = r.ps.err
          /\ IF Failed(r)
             THEN /\ records' = records
                  /\ parseState' = IF r.ps.err = "NonTermination" THEN "hung"
                                   ELSE "returned"
             ELSE /\ records' = Append(records, r.val)
                  /\ parseState' = IF r.val.v.RecordTypeEnum = Str("MessageEnd")
                                   THEN "returned" ELSE "running"
    /\ UNCHANGED <<stream, strict, expand, dnbBound, pruned, history, crunched>>

\* parse leaving the loop at a MessageEnd before appending it
parse_endFirst ==
    /\ parseState \in {"idle", "running"}
    /\ \E r \in {record(Here)} :
          /\ pos' = r.ps.pos
          /\ objects' = r.ps.objects
          /\ values' = r.ps.values
          /\ objrefs' = r.ps.objrefs
          /\ parseErr' = r.ps.err
          /\ IF Failed(r)
             THEN /\ records' = records
                  /\ parseState' = IF r.ps.err = "NonTermination" THEN "hung"
                                   ELSE IF strict THEN "raised" ELSE "returned"
             ELSE IF r.val.v.RecordTypeEnum = Str("MessageEnd")
             THEN /\ records' = records
                  /\ parseState' = "returned"
             ELSE /\ records' = Append(records, r.val)
                  /\ parseState' = "running"
    /\ UNCHANGED <<stream, strict, expand, dnbBound, pruned, history, crunched>>

\* one iteration of the loop of DNBinary.parse: a record is decoded and
\* appended; an exception ends the call, raised to the caller in strict mode
\* and swallowed otherwise; a MessageEnd record ends the call.  What the
\* decoders wrote into the tables before an exception stays written.
parse ==
    /\ parseState \in {"idle", "running"}
    /\ \E r \in {record(Here)} :
          /\ pos' = r.ps.pos
          /\ objects' = r.ps.objects
          /\ values' = r.ps.values
          /\ objrefs' = r.ps.objrefs
          /\ parseErr' = r.ps.err
          /\ IF Failed(r)
             THEN /\ records' = records
                  /\ parseState' = IF r.ps.err = "NonTermination" THEN "hung"
                                   ELSE IF strict THEN "raised" ELSE "returned"
             ELSE /\ records' = Append(records, r.val)
                  /\ parseState' = IF r.val.v.RecordTypeEnum = Str("MessageEnd")
                                   THEN "returned" ELSE "running"
    /\ UNCHANGED <<stream, strict, expand, dnbBound, pruned, history, crunched>>

\* no call is in progress, and the caller may make another one
Callable == parseState \in {"idle", "returned", "raised"} /\ Len(history) < MaxCalls

\* DNBinary.backfill
backfill(doPrune) ==
    /\ Callable
    /\ LET st == backfill_loop([objrefs |-> objrefs, records |-> records,
                                pruned |-> pruned, err |-> OK], 1, doPrune)
       IN /\ objrefs' = st.objrefs
          /\ records' = st.records
          /\ pruned' = st.pruned
          /\ history' = Append(history, [op |-> "backfill", prune |-> doPrune,
                                         at |-> parseState, err |-> st.err])
    /\ UNCHANGED <<stream, pos, strict, expand, dnbBound, objects, values,
                   parseState, parseErr, crunched>>

\* crunchRoot answering None for an empty record list
crunchRoot_lenient ==
    IF records = << >> THEN Done(Null)
    ELSE IF ~Has(records[1], "RootId") THEN Thrown("KeyError")
    ELSE LET x == find_record(records, records[1].v.RootId.v) IN
         IF x = None THEN Thrown("TypeError")
         ELSE crunch(records[x + 1])

\* DNBinary.crunch, as a result: the crunched root or the exception
crunchRoot ==
    IF records = << >> THEN Thrown("IndexError")
    ELSE IF ~Has(records[1], "RootId") THEN Thrown("KeyError")
    ELSE LET x == find_record(records, records[1].v.RootId.v) IN
         IF x = None THEN Thrown("TypeError")
         ELSE crunch(records[x + 1])

\* DNBinary.crunch
Crunch ==
    /\ Callable
    /\ crunched' = crunchRoot.val
    /\ history' = Append(history, [op |-> "crunch", prune |-> FALSE,
                                   at |-> parseState, err |-> crunchRoot.err])
    /\ UNCHANGED <<stream, pos, strict, expand, dnbBound, objects, values,
                   objrefs, pruned, records, parseState, parseErr>>

Next ==
    \/ parse
    \/ \E doPrune \in BOOLEAN : backfill(doPrune)
    \/ Crunch

Spec == Init /\ [][Next]_vars

TypeOK ==
    /\ pos \in 0..Len(stream)
    /\ parseState \in {"idle", "running", "returned", "raised", "hung"}
    /\ DOMAIN objects = DOMAIN values
    /\ Len(history) <= MaxCalls

----------------------------------------------------------------------------
(* Vocabulary of the properties                                            *)

Last(s) == s[Len(s)]

\* this step is a call of backfill() or crunch()
IsCall == Len(history') = Len(history) + 1
Call   == Last(history')

\* this step is an iteration of parse()
IsParseStep == parseState \in {"idle", "running"} /\ parseState' # "idle"
                  /\ history' = history
\* parse() has ended on an exception (raised or swallowed)
ParseFailed == parseErr \notin {OK, "NonTermination"}

IsRecordOf(n, name) ==
    IsDict(n) /\ Has(n, "RecordTypeEnum") /\ n.v.RecordTypeEnum = Str(name)

\* the records reachable from a record through Values
RECURSIVE Reachable(_)
Reachable(n) ==
    IF IsDict(n)
    THEN {n} \cup (IF Has(n, "Values") THEN Reachable(n.v.Values) ELSE {})
    ELSE IF IsList(n)
    THEN UNION {Reachable(n.v[i]) : i \in 1..Len(n.v)}
    ELSE {}

ReachableRecords == UNION {Reachable(records[i]) : i \in 1..Len(records)}

\* the last call was a backfill() made after parse() had returned, and it
\* returned normally
Backfilled ==
    /\ history # << >>
    /\ Last(history).op = "backfill"
    /\ Last(history).at = "returned"
    /\ Last(history).err = OK

----------------------------------------------------------------------------
(* C1: after parse() and backfill(), every MemberReference record reachable *)
(* in the returned record list, top-level or nested under Values, holds the *)
(* fields of the ObjectTable snapshot of its IdRef and has Values set to    *)
(* ValueTable[IdRef], and it still has its IdRef and its RecordTypeEnum.    *)
C1_BackfillPromotesReferences ==
    Backfilled =>
        \A n \in ReachableRecords :
            IsRecordOf(n, "MemberReference") =>
                /\ Has(n, "IdRef")
                /\ n.v.IdRef.v \in DOMAIN objects
                /\ \A k \in DOMAIN objects[n.v.IdRef.v].v :
                       Has(n, k) /\ n.v[k] = objects[n.v.IdRef.v].v[k]
                /\ Has(n, "Values")
                /\ n.v.Values = values[n.v.IdRef.v]

\* the identities that ReferenceList refers to
RefIds == {objrefs[i].ref : i \in 1..Len(objrefs)}
HasId(rec, id) == record_id(rec) = Num(id)

(* C2: a backfill(prune=True) leaves no top-level record whose identity is  *)
(* a referenced objid, at whatever index the target stood; each objid       *)
(* causes at most one removal; records whose identity is not a referenced   *)
(* objid are never removed.                                                 *)
C2_PruneRemovesTargets ==
    [][ (IsCall /\ Call.op = "backfill" /\ Call.prune /\ Call.err = OK
                /\ Call.at = "returned") =>
            /\ \A id \in RefIds :
                   \A i \in 1..Len(records') : ~HasId(records'[i], id)
            /\ Len(records) - Len(records') <= Cardinality(RefIds)
            /\ LET Other(rec) == \A id \in RefIds : ~HasId(rec, id)
               IN SelectSeq(records', Other) = SelectSeq(records, Other) ]_vars

(* C3: the first exception of a decode ends parse(): in strict mode it is   *)
(* raised to the caller, in best-effort mode parse() returns; the failing   *)
(* iteration adds nothing to the record list, every other iteration appends *)
(* exactly the record it decoded, and a call that has ended reads no more.  *)
C3_ErrorPolicy ==
    /\ [](ParseFailed => /\ (strict  => parseState = "raised")
                         /\ (~strict => parseState = "returned"))
    /\ [][IsParseStep /\ ParseFailed' => records' = records]_vars
    /\ [][IsParseStep /\ parseErr' = OK =>
            /\ Len(records') = Len(records) + 1
            /\ SubSeq(records', 1, Len(records)) = records]_vars
    /\ [][(parseState \in {"returned", "raised"}) =>
            parseState' = parseState /\ pos' = pos /\ parseErr' = parseErr]_vars

\* a best-effort parse() returned two or more records and swallowed an error
C3_Witness ==
    ~strict /\ parseState = "returned" /\ ParseFailed /\ Len(records) >= 2

(* C4: when a strict parse() returns, the last record of the list is a      *)
(* MessageEnd, no earlier top-level record is one, and the last octet read  *)
(* from the byte source is the tag of that MessageEnd: nothing behind it is *)
(* read, then or later.                                                     *)
C4_EndsAtMessageEnd ==
    /\ []((strict /\ parseState = "returned") =>
            /\ records # << >>
            /\ IsRecordOf(Last(records), "MessageEnd")
            /\ \A i \in 1..(Len(records) - 1) : ~IsRecordOf(records[i], "MessageEnd")
            /\ pos >= 1 /\ stream[pos] = 11)
    /\ [][parseState = "returned" => pos' = pos]_vars

\* a strict parse() returned three or more records and left octets unread
C4_Witness ==
    /\ strict /\ parseState = "returned"
    /\ Len(records) >= 3 /\ pos < Len(stream)

(* C5: no ObjectId is registered twice in one decode run: an iteration of   *)
(* parse() leaves every snapshot and ValueTable entry that was registered   *)
(* before it as it was, and in strict mode no record is decoded whose       *)
(* identity is already a key of ObjectTable.                                *)
C5_NoDuplicateRegistration ==
    [][ IsParseStep =>
            /\ \A id \in DOMAIN objects :
                   objects'[id] = objects[id] /\ values'[id] = values[id]
            /\ ((strict /\ parseErr' = OK) =>
                   \/ record_id(Last(records')) = Null
                   \/ record_id(Last(records')).v \notin DOMAIN objects) ]_vars

\* the 32-bit field that starts behind offset p of the stream
FieldAt(p) == int32([pos |-> p, err |-> OK]).val

\* the octets behind offset p start a ClassWithId record whose MetadataId is
\* not a key of ObjectTable
MissingMetadataAt(p) ==
    /\ p >= 0 /\ p + 9 <= Len(stream)
    /\ stream[p + 1] = 1
    /\ FieldAt(p + 5) \notin DOMAIN objects

(* C6: decoding a ClassWithId record whose MetadataId is not a key of       *)
(* ObjectTable fails: strict parse() raises, best-effort parse() returns    *)
(* the records decoded before it, and the failing record registers nothing  *)
(* in ObjectTable or ValueTable.                                            *)
C6_MissingMetadata ==
    [][ (IsParseStep /\ MissingMetadataAt(pos)) =>
            /\ parseErr' \in {"KeyError", "NameError"}
            /\ parseState' = IF strict THEN "raised" ELSE "returned"
            /\ records' = records
            /\ objects' = objects
            /\ values' = values ]_vars

\* a best-effort parse() has returned the records decoded before a
\* ClassWithId whose metadata was missing
C6_Witness ==
    /\ ~strict /\ parseState = "returned" /\ parseErr = "KeyError"
    /\ Len(records) >= 1
    /\ MissingMetadataAt(pos - 9)

Tables == <<objects, values, objrefs, pruned, records>>

(* C7 as claimed: a backfill() or crunch() made before parse() raises and   *)
(* changes neither the tables nor the record list.                          *)
C7_UsageError ==
    [][ (IsCall /\ Call.at = "idle") =>
            Call.err # OK /\ Tables' = Tables ]_vars

(* C7 as amended: before parse(), crunch() raises IndexError and backfill() *)
(* returns the empty record list; neither changes the tables or the list.   *)
C7_BeforeParse ==
    [][ (IsCall /\ Call.at = "idle") =>
            /\ Call.op = "crunch"   => Call.err = "IndexError"
            /\ Call.op = "backfill" => Call.err = OK /\ records' = << >>
            /\ Tables' = Tables ]_vars

\* both operations have been called before parse()
C7_Witness ==
    /\ \E i \in 1..Len(history) : history[i].op = "crunch" /\ history[i].at = "idle"
    /\ \E i \in 1..Len(history) : history[i].op = "backfill" /\ history[i].at = "idle"

(* C8: after a best-effort parse() that stopped early, backfill() returns   *)
(* normally: a reference whose IdRef is not a key of ObjectTable is left as *)
(* it was, every other reference is resolved.                               *)
C8_BackfillSkipsAbsent ==
    [][ (IsCall /\ Call.op = "backfill" /\ Call.at = "returned"
                /\ ~strict /\ ParseFailed) =>
            /\ Call.err = OK
            /\ \A i \in 1..Len(objrefs) :
                   IF objrefs[i].ref \notin DOMAIN objects
                   THEN objrefs'[i] = objrefs[i]
                   ELSE /\ \A k \in DOMAIN objects[objrefs[i].ref].v :
                              Has(objrefs'[i].obj, k)
                        /\ Has(objrefs'[i].obj, "Values") ]_vars

(* C9: crunch() starts from the first top-level record whose identity is    *)
(* the RootId of the header: its result is the crunch of that record, and   *)
(* the header mapping itself when no record has that identity.              *)
C9_CrunchFromRoot ==
    ( /\ history # << >>
      /\ Last(history).op = "crunch"
      /\ Last(history).at \in {"returned", "raised"}
      /\ records # << >>
      /\ IsRecordOf(records[1], "SerializedStreamHeader") ) =>
        LET hits == {i \in 1..Len(records) :
                        HasId(records[i], records[1].v.RootId.v)}
            root == records[CHOOSE i \in hits : \A j \in hits : i <= j]
        IN IF hits # {}
           THEN /\ Last(history).err = crunch(root).err
                /\ crunched = crunch(root).val
           ELSE /\ Last(history).err = OK
                /\ crunched = records[1]

\* every value that occurs in a node
RECURSIVE SubNodes(_)
SubNodes(n) ==
    {n} \cup (IF IsDict(n) THEN UNION {SubNodes(n.v[k]) : k \in DOMAIN n.v}
              ELSE IF IsList(n) THEN UNION {SubNodes(n.v[i]) : i \in 1..Len(n.v)}
              ELSE {})

\* the schema of a class record: its own ClassInfo, else the one of the
\* snapshot registered for its MetadataId
HasSchema(n) ==
    \/ Has(n, "ClassInfo")
    \/ /\ n.v.MetadataId.v \in DOMAIN objects
       /\ Has(objects[n.v.MetadataId.v], "ClassInfo")
Schema(n) ==
    IF Has(n, "ClassInfo") THEN n.v.ClassInfo.v
    ELSE objects[n.v.MetadataId.v].v.ClassInfo.v

\* rule 1: member names mapped to the crunched member values, less the nulls
ClassRule(n, c) ==
    LET names == Schema(n).MemberNames.v
        count == Schema(n).MemberCount.v
        vals  == n.v.Values.v
        live  == {i \in 1..count : crunch(vals[i]).val # Null}
    IN /\ c.err = OK
       /\ IsDict(c.val)
       /\ DOMAIN c.val.v = {names[i].v : i \in live}
       /\ \A i \in live :
              (\A j \in live : names[j] = names[i] => j <= i)
                  => c.val.v[names[i].v] = crunch(vals[i]).val

CrunchRule(n) ==
    LET c == crunch(n) IN
    IF IsDict(n)
    THEN IF Has(n, "ClassInfo") \/ Has(n, "MetadataId")
         THEN ( /\ HasSchema(n) /\ Has(n, "Values") /\ IsList(n.v.Values)
                /\ Schema(n).MemberCount.v <= Len(n.v.Values.v)
                /\ Schema(n).MemberCount.v <= Len(Schema(n).MemberNames.v)
                /\ \A i \in 1..Schema(n).MemberCount.v :
                       crunch(n.v.Values.v[i]).err = OK ) => ClassRule(n, c)
         ELSE IF IsRecordOf(n, "ObjectNull") THEN c = Done(Null)
         ELSE IF Has(n, "Values") THEN c = crunch(n.v.Values)
         ELSE IF Has(n, "Value") THEN c = crunch(n.v.Value)
         ELSE (\A k \in DOMAIN n.v : crunch(n.v[k]).err = OK) =>
                  /\ c.err = OK /\ IsDict(c.val)
                  /\ DOMAIN c.val.v = {k \in DOMAIN n.v : crunch(n.v[k]).val # Null}
                  /\ \A k \in DOMAIN c.val.v : c.val.v[k] = crunch(n.v[k]).val
    ELSE IF IsList(n)
    THEN (\A i \in 1..Len(n.v) : crunch(n.v[i]).err = OK) =>
             /\ c.err = OK /\ IsList(c.val)
             /\ Len(c.val.v) = Len(n.v)
             /\ \A i \in 1..Len(n.v) : c.val.v[i] = crunch(n.v[i]).val
    ELSE c = Done(n)

(* C10: the crunch of every node of the record list is what the seven rules *)
(* give, tried in order: class record, ObjectNull, Values, Value, other     *)
(* mapping (nulls omitted), sequence (nulls retained), scalar.              *)
C10_CrunchRules ==
    \A i \in 1..Len(records) : \A n \in SubNodes(records[i]) : CrunchRule(n)

\* crunch() has returned a class record less its null member
C10_Witness ==
    /\ history # << >>
    /\ Last(history).op = "crunch" /\ Last(history).err = OK
    /\ crunched = Dict("a" :> Num(9))
    /\ \E i \in 1..Len(records) : \E n \in SubNodes(records[i]) : IsList(n) /\ Null \in {crunch(n.v[j]).val : j \in 1..Len(n.v)}

----------------------------------------------------------------------------
(* Decoders started on the inputs of one record kind                       *)

\* DNBinary.__init__, for every state variable but the byte source
Fresh ==
    /\ pos = 0
    /\ strict \in BOOLEAN
    /\ expand \in BOOLEAN
    /\ dnbBound \in BOOLEAN
    /\ objects = EmptyMap
    /\ values = EmptyMap
    /\ objrefs = << >>
    /\ pruned = {}
    /\ records = << >>
    /\ parseState = "idle"
    /\ parseErr = OK
    /\ history = << >>
    /\ crunched = Null

\* BinaryArray of rank 1: shape octet, length, element type octets, elements
EncArrayOf(id, shape, len, type, elems) ==
    <<7>> \o I32(id) \o <<shape>> \o I32(1) \o I32(len) \o type \o elems

\* the element types String and Primitive Byte, Primitive Null
OfString == <<1>>
OfByte   == <<0, 2>>
OfNull   == <<0, 17>>

\* ObjectNullMultiple256 and ObjectNullMultiple
EncNulls256(n) == <<13, n>>
EncNulls(n)    == <<14>> \o I32(n)

ArrayStreams ==
    { EncArrayOf(4, 0, 3, OfString, EncNulls256(3)) \o EncEnd,
      EncArrayOf(4, 0, 3, OfString, EncNulls256(4)) \o EncEnd,
      EncArrayOf(4, 0, 2, OfString, EncNulls(2)) \o EncEnd,
      EncArrayOf(4, 0, 2, OfString, EncString(5, <<120>>) \o EncNulls256(1)) \o EncEnd,
      EncArrayOf(4, 0, 2, OfString, EncString(5, <<120>>) \o EncNulls256(2)) \o EncEnd,
      EncArrayOf(4, 0, 0, OfString, << >>) \o EncEnd,
      EncArrayOf(4, 1, 1, OfString, EncNull) \o EncEnd,
      EncArrayOf(4, 3, 1, OfString, I32(0) \o EncNull) \o EncEnd,
      EncArrayOf(4, 0, 2, OfByte, <<7, 8>>) \o EncEnd,
      EncArrayOf(4, 0, 1, OfNull, << >>) \o EncEnd }

ArrayInit == stream \in ArrayStreams /\ Fresh

ArraySpec == ArrayInit /\ [][Next]_vars

\* the record the last iteration of parse() appended
Decoded == Last(records')

\* the cells a decoded BinaryArray accounts for
RECURSIVE CellSum(_)
CellSum(vals) ==
    IF vals = << >> THEN 0
    ELSE (IF IsDict(Head(vals)) /\ Has(Head(vals), "NullCount")
          THEN Head(vals).v.NullCount.v ELSE 1) + CellSum(Tail(vals))

\* a BinaryArray record of rank 1 starts behind offset p, and all the octets
\* of its fixed part are there
ArrayAt(p) ==
    /\ p >= 0 /\ p + 15 <= Len(stream)
    /\ stream[p + 1] = 7
    /\ FieldAt(p + 6) = 1

\* such an array of shape Single holds n elements of primitive type Byte,
\* and the n octets are there
ByteArrayAt(p, n) ==
    /\ ArrayAt(p) /\ stream[p + 6] = 0
    /\ FieldAt(p + 10) = n
    /\ p + 16 + n <= Len(stream)
    /\ SubSeq(stream, p + 15, p + 16) = OfByte

\* such an array of String elements starts with a null run longer than it
OverrunAt(p) ==
    /\ ArrayAt(p) /\ stream[p + 6] = 0
    /\ p + 17 <= Len(stream)
    /\ stream[p + 15] = 1 /\ stream[p + 16] = 13
    /\ stream[p + 17] > FieldAt(p + 10)

(* C11: decoding a BinaryArray of shape Single accounts for exactly Total   *)
(* cells: on success the cell sum over Values (NullCount for a null run, 1  *)
(* for any other value) is the product of Lengths; an array of n primitive  *)
(* values decodes to n Values and reads just their octets; a null run that  *)
(* exceeds Total fails; a shape other than Single fails.                    *)
C11_ArrayCellAccounting ==
    [][ (IsParseStep /\ dnbBound /\ ArrayAt(pos)) =>
            /\ (parseErr' = OK =>
                   CellSum(Decoded.v.Values.v) = TotalCells(Decoded.v.Lengths.v))
            /\ (ByteArrayAt(pos, FieldAt(pos + 10)) =>
                   /\ parseErr' = OK
                   /\ pos' = pos + 16 + FieldAt(pos + 10)
                   /\ Decoded.v.Values =
                         List([i \in 1..FieldAt(pos + 10) |-> Num(stream[pos + 16 + i])]))
            /\ (OverrunAt(pos) => parseErr' = "Exception")
            /\ (stream[pos + 6] # 0 => parseErr' = "Exception") ]_vars

----------------------------------------------------------------------------
(* Class records                                                           *)

\* a class record "c" with the types of its members: tag 4 (system) or 5,
\* MemberCount, then the names, the type octets and what follows them
EncClassOf(tag, id, count, names, types, rest) ==
    <<tag>> \o I32(id) \o LPS(<<99>>) \o I32(count) \o names \o types \o rest

ClassStreams ==
    { EncClass(3, 7, EncString(2, <<120>>))
          \o EncClassWithId(5, 3, <<9>> \o EncString(6, <<121>>)) \o EncEnd,
      EncClassOf(5, 3, 0, << >>, << >>, I32(1))
          \o EncClassWithId(4, 3, << >>) \o EncEnd,
      EncClassOf(4, 3, 1, LPS(<<97>>), OfByte, <<7>>)
          \o EncClassWithId(4, 3, <<8>>) \o EncEnd,
      EncClassOf(5, 3, 1, LPS(<<97>>), OfString, I32(1) \o EncNull) \o EncEnd,
      EncClassOf(5, 3, -1, << >>, << >>, I32(1)) \o EncEnd,
      EncClassOf(4, 3, -1, << >>, << >>, << >>)
          \o EncClassWithId(4, 3, << >>) \o EncEnd,
      EncClassOf(5, 3, 2, LPS(<<97>>), << >>, << >>) \o EncEnd }

ClassInit == stream \in ClassStreams /\ Fresh

ClassSpec == ClassInit /\ [][Next]_vars

\* the four lengths of a class record n decoded against the schema sch are
\* the MemberCount of the schema
Arity(n, sch) ==
    /\ Has(sch, "ClassInfo") /\ Has(sch, "MemberTypeInfo") /\ Has(n, "Values")
    /\ LET count == sch.v.ClassInfo.v.MemberCount.v
       IN /\ Len(sch.v.ClassInfo.v.MemberNames.v) = count
          /\ Len(sch.v.MemberTypeInfo.v.BinaryTypeEnums.v) = count
          /\ Len(sch.v.MemberTypeInfo.v.AdditionalInfos.v) = count
          /\ Len(n.v.Values.v) = count

\* a class record that declares its own members and types
DeclaresTypes(n) ==
    \/ IsRecordOf(n, "SystemClassWithMembersAndTypes")
    \/ IsRecordOf(n, "ClassWithMembersAndTypes")

(* C12: in every successfully decoded class record that carries member     *)
(* values, MemberNames, BinaryTypeEnums, AdditionalInfos and Values all     *)
(* have the length MemberCount of its schema: its own ClassInfo and         *)
(* MemberTypeInfo, or those registered for the MetadataId of a ClassWithId. *)
C12_MemberCountArity ==
    [][ (IsParseStep /\ parseErr' = OK) =>
            /\ \A n \in SubNodes(Decoded) : DeclaresTypes(n) => Arity(n, n)
            /\ IsRecordOf(Decoded, "ClassWithId") =>
                   Arity(Decoded, objects[Decoded.v.MetadataId.v]) ]_vars

----------------------------------------------------------------------------
(* Length prefixes                                                         *)

\* BinaryObjectString with the octets of its length prefix written out
EncStringOf(id, prefix, payload) == <<6>> \o I32(id) \o prefix \o payload

StringStreams ==
    { EncStringOf(2, <<1>>, <<120>>) \o EncEnd,
      EncStringOf(2, <<0>>, << >>) \o EncEnd,
      EncStringOf(2, <<129, 0>>, <<120>>) \o EncEnd,
      EncStringOf(2, <<130, 128, 0>>, <<120, 121>>) \o EncEnd,
      EncStringOf(2, <<128, 128, 128, 128, 0>>, << >>) \o EncEnd,
      EncStringOf(2, <<129, 128, 128, 128, 0>>, <<120>>) \o EncEnd,
      EncStringOf(2, <<128, 128, 128, 128, 128, 0>>, << >>) \o EncEnd,
      EncStringOf(2, <<129, 128, 128, 128, 128, 0>>, <<120>>) \o EncEnd,
      EncStringOf(2, <<128, 128, 128, 128, 128, 128, 0>>, << >>) \o EncEnd,
      EncStringOf(2, <<255, 255, 255, 255, 15>>, <<120>>) \o EncEnd,
      EncStringOf(2, <<128, 1>>, <<120>>) \o EncEnd,
      EncStringOf(2, <<128, 128>>, << >>) }

StringInit == stream \in StringStreams /\ Fresh

StringSpec == StringInit /\ [][Next]_vars

\* a BinaryObjectString record starts behind offset p
StringAt(p) == p >= 0 /\ p + 5 <= Len(stream) /\ stream[p + 1] = 6

\* the octets of the length prefix that starts behind offset p, its last
\* octet included (all that are left, where the stream ends within it)
RECURSIVE PrefixSize(_)
PrefixSize(p) ==
    IF p >= Len(stream) THEN 0
    ELSE IF stream[p + 1] < 128 THEN 1
    ELSE 1 + PrefixSize(p + 1)

\* the prefix ends within the stream
Terminated(p) == PrefixSize(p) >= 1 /\ stream[p + PrefixSize(p)] < 128

\* the fifth octet of the prefix still has its continuation bit set
TooLong(p) == \A i \in 1..5 : p + i <= Len(stream) /\ stream[p + i] >= 128

\* the sum of (octet & 0x7F) << (7 * k) over the first n octets of the prefix
RECURSIVE PrefixValue(_, _)
PrefixValue(p, n) ==
    IF n = 0 THEN 0
    ELSE Min(HugeLen, PrefixValue(p, n - 1) + Shifted(stream[p + n] % 128, n - 1))

(* C13: a length prefix is at most five octets: where the fifth octet still *)
(* has its continuation bit set the string is rejected and no octet behind  *)
(* the fifth is read; where the prefix ends within five octets and the      *)
(* string is decoded, the payload read is as long as the sum of             *)
(* (octet & 0x7F) << (7 * k) over the prefix.                               *)
C13_PrefixAtMostFive ==
    [][ (IsParseStep /\ dnbBound /\ StringAt(pos)) =>
            /\ TooLong(pos + 5) => (parseErr' # OK /\ pos' <= pos + 10)
            /\ (Terminated(pos + 5) /\ PrefixSize(pos + 5) <= 5 /\ parseErr' = OK) =>
                   pos' = pos + 5 + PrefixSize(pos + 5)
                              + PrefixValue(pos + 5, PrefixSize(pos + 5)) ]_vars

====
